---------------------------- MODULE Spec2Model ----------------------------
(***************************************************************************)
(* A model of the quaternion node editor: the core port graph of core.py   *)
(* (Port, MathUnit, MATH_UNIT_CONFIGS, create_math_unit) and the scene     *)
(* handlers of gui_scene.py / gui_items.py that drive it.                  *)
(***************************************************************************)
EXTENDS Integers, Sequences, FiniteSets, TLC

VARIABLES
    units,            \* node id -> MathUnit record (every unit ever created)
    enabled,          \* Port -> BOOLEAN           (Port.enabled)
    connections,      \* Port -> Seq(Port)         (Port.connections)
    scene_nodes,      \* Seq(node id)              (NodeScene.nodes)
    scene_connections,\* Seq(ConnectionItem)       (NodeScene.connections)
    gui_connections,  \* Port -> Seq(ConnectionItem) (Anchor.gui_connections)
    dragging_connection, \* BOOLEAN: a preview item is set (None = FALSE)
    drag_start_anchor,   \* Port or None
    drag_start_node,     \* node id or None
    last              \* the last core call made and its outcome:
                      \* [op, raised, ret]

vars == <<units, enabled, connections, scene_nodes, scene_connections,
          gui_connections, dragging_connection, drag_start_anchor,
          drag_start_node, last>>

coreVars == <<units, enabled, connections>>
guiVars == <<scene_nodes, scene_connections, gui_connections,
             dragging_connection, drag_start_anchor, drag_start_node>>

\* python's None, one per type of value it stands in for
None == "None"
NoNode == 0
NoConfig == [number_type |-> None, ports |-> <<>>, title |-> None,
             wiring_connections |-> <<>>]
NoPort == [node |-> NoNode, port_category |-> None, index |-> NoNode,
           type |-> None]

\* ------------------------------------------------------------------
\* Bounds of the model.
\* ------------------------------------------------------------------
\* ports per side + core links + disabled ports
MaxLoad == 5

\* the values fed to get_output_values are the integers -MaxVal..MaxVal
MaxVal == 1

\* an input vector has up to MaxExtra entries more than the unit has ports
MaxExtra == 1

\* ------------------------------------------------------------------
\* core.py: enumerations and the catalog.
\* ------------------------------------------------------------------
MathUnitType == {"R", "C1", "CI", "Q1", "QI", "QJ", "QK"}

INPUT == "input"
OUTPUT == "output"
PortCategory == {INPUT, OUTPUT}

PortType == {"R", "I", "QI", "QJ", "QK"}

MathUnitConfig(number_type, ports, title, wiring_connections) ==
    [number_type |-> number_type, ports |-> ports, title |-> title,
     wiring_connections |-> wiring_connections]

MATH_UNIT_CONFIGS ==
    [t \in MathUnitType |->
        CASE t = "R"  -> MathUnitConfig("R", <<"R">>, "1", <<<<0, 0, FALSE>>>>)
          [] t = "C1" -> MathUnitConfig("C1", <<"R", "I">>, "1",
                            <<<<0, 0, FALSE>>, <<1, 1, FALSE>>>>)
          [] t = "CI" -> MathUnitConfig("CI", <<"R", "I">>, "i",
                            <<<<0, 1, FALSE>>, <<1, 0, TRUE>>>>)
          [] t = "Q1" -> MathUnitConfig("Q1", <<"R", "QI", "QJ", "QK">>, "1",
                            <<<<0, 0, FALSE>>, <<1, 1, FALSE>>,
                              <<2, 2, FALSE>>, <<3, 3, FALSE>>>>)
          [] t = "QI" -> MathUnitConfig("QI", <<"R", "QI", "QJ", "QK">>, "i",
                            <<<<0, 1, FALSE>>, <<1, 0, TRUE>>,
                              <<2, 3, FALSE>>, <<3, 2, TRUE>>>>)
          [] t = "QJ" -> MathUnitConfig("QJ", <<"R", "QI", "QJ", "QK">>, "j",
                            <<<<0, 2, FALSE>>, <<1, 3, TRUE>>,
                              <<2, 0, TRUE>>, <<3, 1, FALSE>>>>)
          [] t = "QK" -> MathUnitConfig("QK", <<"R", "QI", "QJ", "QK">>, "k",
                            <<<<0, 3, FALSE>>, <<1, 2, FALSE>>,
                              <<2, 1, TRUE>>, <<3, 0, TRUE>>>>)]

\* Tags a caller can pass that are no key of MATH_UNIT_CONFIGS.
UnregisteredTags == {"BQ1", "none"}
AllTags == MathUnitType \cup UnregisteredTags

\* ------------------------------------------------------------------
\* core.py: Port
\* ------------------------------------------------------------------
\* Port.__init__: the immutable attributes; connections = [] and
\* enabled = True are the entries of the variables of the same name.
Port(node, port_category, index, port_type) ==
    [node |-> node, port_category |-> port_category, index |-> index,
     type |-> port_type]

\* python's `x in list`
In(x, s) == \E i \in 1..Len(s) : s[i] = x

\* python's list.remove(x): drops the first occurrence
RECURSIVE Remove(_, _)
Remove(s, x) ==
    IF s = <<>> THEN <<>>
    ELSE IF Head(s) = x THEN Tail(s)
    ELSE <<Head(s)>> \o Remove(Tail(s), x)

\* python's list.count(x)
Count(x, s) == Cardinality({i \in 1..Len(s) : s[i] = x})

\* Variants of can_connect_to with one check missing.
can_connect_to_noType(self, other) ==
    IF ~enabled[self] \/ ~enabled[other] THEN FALSE
    ELSE IF other = self \/ other.node = self.node THEN FALSE
    ELSE IF self.port_category = other.port_category THEN FALSE
    ELSE TRUE

can_connect_to_selfOnly(self, other) ==
    IF ~enabled[self] THEN FALSE
    ELSE IF other = self \/ other.node = self.node THEN FALSE
    ELSE IF self.port_category = other.port_category THEN FALSE
    ELSE IF self.type # other.type THEN FALSE
    ELSE TRUE

can_connect_to_noNode(self, other) ==
    IF ~enabled[self] \/ ~enabled[other] THEN FALSE
    ELSE IF other = self THEN FALSE
    ELSE IF self.port_category = other.port_category THEN FALSE
    ELSE IF self.type # other.type THEN FALSE
    ELSE TRUE

can_connect_to(self, other) ==
    IF ~enabled[self] \/ ~enabled[other] THEN FALSE
    ELSE IF other = self \/ other.node = self.node THEN FALSE
    ELSE IF self.port_category = other.port_category THEN FALSE
    ELSE IF self.type # other.type THEN FALSE
    ELSE TRUE

\* Variants of connect_to: the validation's result ignored, the membership
\* tests missing, the back link missing.
connect_to_noCheck(conns, self, other) ==
    LET c1 == IF ~In(other, conns[self])
              THEN [conns EXCEPT ![self] = Append(@, other)]
              ELSE conns
        c2 == IF ~In(self, c1[other])
              THEN [c1 EXCEPT ![other] = Append(@, self)]
              ELSE c1
    IN  [ret |-> can_connect_to(self, other), connections |-> c2]

connect_to_dup(conns, self, other) ==
    IF ~can_connect_to(self, other)
    THEN [ret |-> FALSE, connections |-> conns]
    ELSE [ret |-> TRUE,
          connections |-> [conns EXCEPT ![self] = Append(@, other),
                                        ![other] = Append(@, self)]]

connect_to_oneWay(conns, self, other) ==
    IF ~can_connect_to(self, other)
    THEN [ret |-> FALSE, connections |-> conns]
    ELSE [ret |-> TRUE,
          connections |-> IF ~In(other, conns[self])
                          THEN [conns EXCEPT ![self] = Append(@, other)]
                          ELSE conns]

\* A variant of connect_to that refuses a port that has a connection.
connect_to_single(conns, self, other) ==
    IF ~can_connect_to(self, other)
       \/ conns[self] # <<>> \/ conns[other] # <<>>
    THEN [ret |-> FALSE, connections |-> conns]
    ELSE [ret |-> TRUE,
          connections |-> [conns EXCEPT ![self] = Append(@, other),
                                        ![other] = Append(@, self)]]

\* The result of self.connect_to(other) on the connection lists conns:
\* the value returned and the lists afterwards.
connect_to(conns, self, other) ==
    IF ~can_connect_to(self, other)
    THEN [ret |-> FALSE, connections |-> conns]
    ELSE LET c1 == IF ~In(other, conns[self])
                   THEN [conns EXCEPT ![self] = Append(@, other)]
                   ELSE conns
             c2 == IF ~In(self, c1[other])
                   THEN [c1 EXCEPT ![other] = Append(@, self)]
                   ELSE c1
         IN  [ret |-> TRUE, connections |-> c2]

\* Variants of disconnect_from: the whole list of self cleared, the peer's
\* side left in place.
disconnect_from_clear(conns, self, other) ==
    IF ~In(other, conns[self])
    THEN [ret |-> FALSE, connections |-> conns]
    ELSE LET c1 == [conns EXCEPT ![self] = <<>>]
             c2 == IF In(self, c1[other])
                   THEN [c1 EXCEPT ![other] = Remove(@, self)]
                   ELSE c1
         IN  [ret |-> TRUE, connections |-> c2]

disconnect_from_oneSided(conns, self, other) ==
    IF ~In(other, conns[self])
    THEN [ret |-> FALSE, connections |-> conns]
    ELSE [ret |-> TRUE,
          connections |-> [conns EXCEPT ![self] = Remove(@, other)]]

disconnect_from(conns, self, other) ==
    IF ~In(other, conns[self])
    THEN [ret |-> FALSE, connections |-> conns]
    ELSE LET c1 == [conns EXCEPT ![self] = Remove(@, other)]
             c2 == IF In(self, c1[other])
                   THEN [c1 EXCEPT ![other] = Remove(@, self)]
                   ELSE c1
         IN  [ret |-> TRUE, connections |-> c2]

is_connected(conns, self) == Len(conns[self]) > 0

\* ------------------------------------------------------------------
\* core.py: MathUnit and the factory
\* ------------------------------------------------------------------
\* A variant of _create_ports that numbers the ports from 1.
_create_ports_oneBased(node, port_category, port_types) ==
    [k \in 1..Len(port_types) |->
        [node |-> node, port_category |-> port_category, index |-> k,
         type |-> port_types[k]]]

\* enumerate(port_types) is 0-based; TLA+ sequences are 1-based
_create_ports(node, port_category, port_types) ==
    [k \in 1..Len(port_types) |->
        Port(node, port_category, k - 1, port_types[k])]

\* MathUnit.__init__ for the unit stored under id `node`
MathUnit(node, config) ==
    [number_type |-> config.number_type,
     title |-> config.title,
     dimension |-> Len(config.ports),
     input_ports |-> _create_ports(node, INPUT, config.ports),
     output_ports |-> _create_ports(node, OUTPUT, config.ports),
     wiring_connections |-> config.wiring_connections]

\* A lookup that falls back to the first entry instead of None.
ConfigGet_default(unit_type) ==
    IF unit_type \in DOMAIN MATH_UNIT_CONFIGS
    THEN MATH_UNIT_CONFIGS[unit_type] ELSE MATH_UNIT_CONFIGS["R"]

\* dict.get: the config, or None
ConfigGet(unit_type) ==
    IF unit_type \in DOMAIN MATH_UNIT_CONFIGS
    THEN MATH_UNIT_CONFIGS[unit_type] ELSE NoConfig

\* create_math_unit: either raises ValueError or returns the new unit
create_math_unit(node, unit_type) ==
    LET config == ConfigGet(unit_type) IN
    IF config = NoConfig
    THEN [raised |-> "ValueError", unit |-> None]
    ELSE [raised |-> None, unit |-> MathUnit(node, config)]

\* Variants of the helpers of get_output_values: the row count taken for
\* the largest output index, the element after the one asked for.
max_output_idx_count(wiring) == Len(wiring)

GetItem_next(s, i) ==
    IF 0 <= i + 1 /\ i + 1 < Len(s) THEN [raised |-> None, value |-> s[i + 2]]
    ELSE [raised |-> "IndexError", value |-> 0]

\* A variant of get_wiring_connections that loses the first row.
get_wiring_connections_tail(self) == Tail(self.wiring_connections)

\* python's s[i]: 0-based, a negative i counts from the end, anything
\* outside raises IndexError
GetItem(s, i) ==
    IF 0 <= i /\ i < Len(s) THEN [raised |-> None, value |-> s[i + 1]]
    ELSE IF -Len(s) <= i /\ i < 0
    THEN [raised |-> None, value |-> s[Len(s) + i + 1]]
    ELSE [raised |-> "IndexError", value |-> 0]

\* python's s[i] = v
SetItem(s, i, v) ==
    IF 0 <= i /\ i < Len(s)
    THEN [raised |-> None, value |-> [s EXCEPT ![i + 1] = v]]
    ELSE IF -Len(s) <= i /\ i < 0
    THEN [raised |-> None, value |-> [s EXCEPT ![Len(s) + i + 1] = v]]
    ELSE [raised |-> "IndexError", value |-> s]

\* max(conn[1] for conn in wiring) if wiring else -1
max_output_idx(wiring) ==
    IF wiring = <<>> THEN -1
    ELSE LET outs == {wiring[k][2] : k \in 1..Len(wiring)}
         IN  CHOOSE m \in outs : \A x \in outs : x <= m

\* [0.0] * n
Zeros(n) == [k \in 1..n |-> 0]

\* MathUnit.get_wiring_connections
get_wiring_connections(self) == self.wiring_connections

\* A variant of is_input_port_active with the lower bound not tested.
is_input_port_active_noLower(conns, self, index) ==
    IF index < Len(self.input_ports)
    THEN LET g == GetItem(self.input_ports, index) IN
         IF g.raised # None THEN [raised |-> g.raised, ret |-> FALSE]
         ELSE [raised |-> None, ret |-> is_connected(conns, g.value)]
    ELSE [raised |-> None, ret |-> FALSE]

\* MathUnit.is_input_port_active on the connection lists conns: the
\* exception raised, or the value returned
is_input_port_active(conns, self, index) ==
    IF 0 <= index /\ index < Len(self.input_ports)
    THEN LET g == GetItem(self.input_ports, index) IN
         IF g.raised # None THEN [raised |-> g.raised, ret |-> FALSE]
         ELSE [raised |-> None, ret |-> is_connected(conns, g.value)]
    ELSE [raised |-> None, ret |-> FALSE]

\* Variants of the loop of get_output_values: the bounds test missing,
\* the sign never inverted, the value stored at the input's index.
WiringLoop_noGuard(rows, input_values, output_values) ==
    LET g == [k \in 1..Len(rows) |-> GetItem(input_values, rows[k][1])]
        bad == {k \in 1..Len(rows) : g[k].raised # None}
    IN  IF bad # {} THEN [raised |-> "IndexError", ret |-> <<>>]
        ELSE [raised |-> None,
              ret |-> [o \in 1..Len(output_values) |->
                         IF \E k \in 1..Len(rows) : rows[k][2] = o - 1
                         THEN LET k == CHOOSE k \in 1..Len(rows) :
                                          rows[k][2] = o - 1
                              IN  IF rows[k][3] THEN -g[k].value
                                  ELSE g[k].value
                         ELSE 0]]

WiringLoop_noSign(rows, input_values, output_values) ==
    [raised |-> None,
     ret |-> [o \in 1..Len(output_values) |->
                IF \E k \in 1..Len(rows) :
                      rows[k][2] = o - 1 /\ rows[k][1] < Len(input_values)
                THEN LET k == CHOOSE k \in 1..Len(rows) :
                                 rows[k][2] = o - 1
                                 /\ rows[k][1] < Len(input_values)
                     IN  input_values[rows[k][1] + 1]
                ELSE 0]]

WiringLoop_inPlace(rows, input_values, output_values) ==
    [raised |-> None,
     ret |-> [o \in 1..Len(output_values) |->
                IF \E k \in 1..Len(rows) :
                      rows[k][1] = o - 1 /\ rows[k][1] < Len(input_values)
                THEN LET k == CHOOSE k \in 1..Len(rows) :
                                 rows[k][1] = o - 1
                                 /\ rows[k][1] < Len(input_values)
                     IN  IF rows[k][3] THEN -input_values[o] ELSE input_values[o]
                ELSE 0]]

\* the loop `for input_idx, output_idx, invert_sign in wiring_connections`
\* of get_output_values, row by row, stopping at the first exception
RECURSIVE WiringLoop(_, _, _)
WiringLoop(rows, input_values, output_values) ==
    IF rows = <<>> THEN [raised |-> None, ret |-> output_values]
    ELSE LET input_idx == Head(rows)[1]
             output_idx == Head(rows)[2]
             invert_sign == Head(rows)[3]
         IN  IF input_idx < Len(input_values)
             THEN LET g == GetItem(input_values, input_idx)
                      value == IF invert_sign THEN -g.value ELSE g.value
                      s == SetItem(output_values, output_idx, value)
                  IN  IF g.raised # None
                      THEN [raised |-> g.raised, ret |-> <<>>]
                      ELSE IF s.raised # None
                      THEN [raised |-> s.raised, ret |-> <<>>]
                      ELSE WiringLoop(Tail(rows), input_values, s.value)
             ELSE WiringLoop(Tail(rows), input_values, output_values)

\* A variant of get_output_values sized by the number of ports.
get_output_values_byDimension(self, input_values) ==
    WiringLoop(self.wiring_connections, input_values, Zeros(self.dimension))

\* MathUnit.get_output_values: the exception raised, or the list returned
get_output_values(self, input_values) ==
    WiringLoop(self.wiring_connections, input_values,
               Zeros(max_output_idx(self.wiring_connections) + 1))

\* ------------------------------------------------------------------
\* The objects alive in a state.
\* ------------------------------------------------------------------
Range(s) == {s[i] : i \in 1..Len(s)}

NodeIds == DOMAIN units
AllPorts == DOMAIN enabled
PortsOf(n) == {p \in AllPorts : p.node = n}

\* (port, position) of every entry of every connection list: two per link
LinkEnds == UNION {{<<p, i>> : i \in 1..Len(connections[p])} : p \in AllPorts}
Disabled == {p \in AllPorts : ~enabled[p]}

\* what the bound MaxLoad counts: ports per side, core links and disabled
\* ports
Load == (Cardinality(AllPorts) \div 2) + ((Cardinality(LinkEnds) + 1) \div 2)
        + Cardinality(Disabled)

\* the id a new object gets: the smallest one not in use
NewId(used) == CHOOSE i \in 1..(Cardinality(used) + 1) :
                  i \notin used /\ \A j \in 1..(i - 1) : j \in used

\* the state after MathUnit.__init__ has run for a new unit
Register(node, unit) ==
    LET ps == Range(unit.input_ports) \cup Range(unit.output_ports) IN
    /\ units' = units @@ (node :> unit)
    /\ enabled' = enabled @@ [p \in ps |-> TRUE]
    /\ connections' = connections @@ [p \in ps |-> <<>>]

Init ==
    /\ units = <<>>
    /\ enabled = <<>>
    /\ connections = <<>>
    /\ scene_nodes = <<>>
    /\ scene_connections = <<>>
    /\ gui_connections = <<>>
    /\ dragging_connection = FALSE
    /\ drag_start_anchor = NoPort
    /\ drag_start_node = NoNode
    /\ last = [op |-> "init", arg |-> None, raised |-> None, ret |-> None,
               changed |-> FALSE]

\* ------------------------------------------------------------------
\* The core API called directly (SpecCore).
\* ------------------------------------------------------------------
\* The tags the port-graph specification creates units with: a one-port
\* unit, a two-port unit and two tags the catalog does not hold.
CoreTags == {"R", "CI", "BQ1"}

\* what `last` records of a call: its name, the tag passed (factory),
\* the exception raised, the value returned, and whether the call changed
\* any unit, enabled flag or connection list
Call(op, arg, raised, ret, changed) ==
    [op |-> op, arg |-> arg, raised |-> raised, ret |-> ret,
     changed |-> changed]

CreateUnit(unit_type) ==
    LET node == NewId(NodeIds)
        r == create_math_unit(node, unit_type) IN
    /\ IF r.raised # None
       THEN /\ UNCHANGED coreVars
            /\ last' = Call("create_math_unit", unit_type, r.raised,
                            NoNode, coreVars' # coreVars)
       ELSE /\ Register(node, r.unit)
            /\ last' = Call("create_math_unit", unit_type, None, node,
                            coreVars' # coreVars)
    /\ UNCHANGED guiVars
    /\ Load' <= MaxLoad

ConnectTo(self, other) ==
    LET r == connect_to(connections, self, other) IN
    /\ connections' = r.connections
    /\ UNCHANGED <<units, enabled>>
    /\ last' = Call("connect_to", None, None, r.ret, coreVars' # coreVars)
    /\ UNCHANGED guiVars
    /\ Load' <= MaxLoad

DisconnectFrom(self, other) ==
    LET r == disconnect_from(connections, self, other) IN
    /\ connections' = r.connections
    /\ UNCHANGED <<units, enabled>>
    /\ last' = Call("disconnect_from", None, None, r.ret,
                    coreVars' # coreVars)
    /\ UNCHANGED guiVars

\* port.enabled = value
SetEnabled(self, value) ==
    /\ enabled' = [enabled EXCEPT ![self] = value]
    /\ UNCHANGED <<units, connections>>
    /\ last' = Call("set_enabled", None, None, value, coreVars' # coreVars)
    /\ UNCHANGED guiVars
    /\ Load' <= MaxLoad

CoreNext ==
    \/ \E t \in CoreTags : CreateUnit(t)
    \/ \E p \in AllPorts, q \in AllPorts : ConnectTo(p, q)
    \/ \E p \in AllPorts, q \in AllPorts : DisconnectFrom(p, q)
    \/ \E p \in AllPorts, v \in BOOLEAN : SetEnabled(p, v)

SpecCore == Init /\ [][CoreNext]_vars

\* The factory alone, called with every tag.
FactoryNext == \E t \in AllTags : CreateUnit(t)

SpecFactory == Init /\ [][FactoryNext]_vars

\* ------------------------------------------------------------------
\* One unit and its evaluation (SpecEval): a unit is built, by the
\* factory or by MathUnit(config) with a config of the caller's own, an
\* input vector is supplied, and each result is fed back as the next input.
\* ------------------------------------------------------------------
Values == (-MaxVal)..MaxVal

InputVectors(dimension) ==
    UNION {[1..k -> Values] : k \in 0..(dimension + MaxExtra)}

\* configs outside the catalog: an empty table, and a table that leaves
\* output 0 unwritten
CustomConfigs ==
    {MathUnitConfig("R", <<"R">>, "empty", <<>>),
     MathUnitConfig("C1", <<"R", "I">>, "sparse", <<<<1, 1, TRUE>>>>)}

CreateCustomUnit(config) ==
    LET node == NewId(NodeIds) IN
    /\ Register(node, MathUnit(node, config))
    /\ last' = Call("MathUnit", config.title, None, node,
                    coreVars' # coreVars)
    /\ UNCHANGED guiVars
    /\ Load' <= MaxLoad

GetOutputValues(n, input_values) ==
    LET r == get_output_values(units[n], input_values) IN
    /\ UNCHANGED coreVars
    /\ last' = Call("get_output_values",
                    [node |-> n, input_values |-> input_values],
                    r.raised, r.ret, coreVars' # coreVars)
    /\ UNCHANGED guiVars

EvalNext ==
    \/ \E t \in MathUnitType : NodeIds = {} /\ CreateUnit(t)
    \/ \E c \in CustomConfigs : NodeIds = {} /\ CreateCustomUnit(c)
    \/ /\ last.op \in {"create_math_unit", "MathUnit"}
       /\ \E n \in NodeIds : \E v \in InputVectors(units[n].dimension) :
             GetOutputValues(n, v)
    \/ \E n \in NodeIds :
          /\ last.op = "get_output_values" /\ last.raised = None
          /\ GetOutputValues(n, last.ret)

SpecEval == Init /\ [][EvalNext]_vars

\* ------------------------------------------------------------------
\* Units under every call of the core API (SpecUnit): the port graph of
\* SpecCore together with the queries of MathUnit.
\* ------------------------------------------------------------------
\* the tags SpecUnit creates units with
UnitTags == {"R", "CI"}

\* the indices is_input_port_active is asked about: one below and one
\* above those of the unit's ports
Indices(n) == (-1)..units[n].dimension

IsInputPortActive(n, index) ==
    LET r == is_input_port_active(connections, units[n], index) IN
    /\ UNCHANGED coreVars
    /\ last' = Call("is_input_port_active", [node |-> n, index |-> index],
                    r.raised, r.ret, coreVars' # coreVars)
    /\ UNCHANGED guiVars

UnitNext ==
    \/ \E t \in UnitTags : CreateUnit(t)
    \/ \E p \in AllPorts, q \in AllPorts : ConnectTo(p, q)
    \/ \E p \in AllPorts, q \in AllPorts : DisconnectFrom(p, q)
    \/ \E p \in AllPorts, v \in BOOLEAN : SetEnabled(p, v)
    \/ \E n \in NodeIds : \E i \in Indices(n) : IsInputPortActive(n, i)
    \/ \E n \in NodeIds : GetOutputValues(n, Zeros(units[n].dimension))

SpecUnit == Init /\ [][UnitNext]_vars

\* ------------------------------------------------------------------
\* The queries of the core API between its operations (SpecQuery): every
\* query of Port and MathUnit is asked in every state of the port graph.
\* ------------------------------------------------------------------
\* the tag SpecQuery creates units with: two ports, one table row with a
\* sign inversion
QueryTags == {"CI"}

\* the calls that only ask
QueryOps ==
    {"can_connect_to", "is_connected", "is_input_port_active",
     "get_wiring_connections", "get_output_values"}

CanConnectTo(self, other) ==
    /\ UNCHANGED coreVars
    /\ last' = Call("can_connect_to", <<self, other>>, None,
                    can_connect_to(self, other), coreVars' # coreVars)
    /\ UNCHANGED guiVars

IsConnected(self) ==
    /\ UNCHANGED coreVars
    /\ last' = Call("is_connected", self, None,
                    is_connected(connections, self), coreVars' # coreVars)
    /\ UNCHANGED guiVars

\* A variant of get_wiring_connections that pops the first row off the
\* unit's table while handing it out.
GetWiringConnections_popping(n) ==
    /\ units' = [units EXCEPT ![n].wiring_connections =
                    IF @ = <<>> THEN @ ELSE Tail(@)]
    /\ UNCHANGED <<enabled, connections>>
    /\ last' = Call("get_wiring_connections", n, None,
                    get_wiring_connections(units[n]), coreVars' # coreVars)
    /\ UNCHANGED guiVars

GetWiringConnections(n) ==
    /\ UNCHANGED coreVars
    /\ last' = Call("get_wiring_connections", n, None,
                    get_wiring_connections(units[n]), coreVars' # coreVars)
    /\ UNCHANGED guiVars

QueryNext ==
    \/ \E t \in QueryTags : CreateUnit(t)
    \/ \E p \in AllPorts, q \in AllPorts : ConnectTo(p, q)
    \/ \E p \in AllPorts, q \in AllPorts : DisconnectFrom(p, q)
    \/ \E p \in AllPorts, v \in BOOLEAN : SetEnabled(p, v)
    \/ \E p \in AllPorts, q \in AllPorts : CanConnectTo(p, q)
    \/ \E p \in AllPorts : IsConnected(p)
    \/ \E n \in NodeIds : GetWiringConnections(n)
    \/ \E n \in NodeIds : \E i \in Indices(n) : IsInputPortActive(n, i)
    \/ \E n \in NodeIds : GetOutputValues(n, Zeros(units[n].dimension))

SpecQuery == Init /\ [][QueryNext]_vars

\* ------------------------------------------------------------------
\* number.py: the per-class units.  Each class hard-codes the list
\* `conns` that its draw_internal_wiring hands to _draw_internal_wiring.
\* ------------------------------------------------------------------
ComplexClasses == {"ComplexUnit1", "ComplexUnitI"}
QuaternionClasses == {"QuaternionUnit1", "QuaternionUnitI",
                      "QuaternionUnitJ", "QuaternionUnitK"}
BiQuaternionClasses ==
    {"BiQuaternionUnit1", "BiQuaternionUniti", "BiQuaternionUnitI",
     "BiQuaternionUnitiI", "BiQuaternionUnitJ", "BiQuaternionUnitiJ",
     "BiQuaternionUnitK", "BiQuaternionUnitiK"}
LegacyClasses == ComplexClasses \cup QuaternionClasses
                    \cup BiQuaternionClasses

\* the argument of _build_anchor in the class's base
build_anchor_dimension(cls) ==
    IF cls \in ComplexClasses THEN 2
    ELSE IF cls \in QuaternionClasses THEN 4
    ELSE 8

LEGACY_CONNS ==
    [cls \in LegacyClasses |->
        CASE cls = "ComplexUnit1" -> <<<<0, 1, FALSE>>, <<1, 0, FALSE>>>>
          [] cls = "ComplexUnitI" -> <<<<0, 1, FALSE>>, <<1, 0, TRUE>>>>
          [] cls = "QuaternionUnit1" ->
                <<<<0, 0, FALSE>>, <<1, 1, FALSE>>,
                  <<2, 2, FALSE>>, <<3, 3, FALSE>>>>
          [] cls = "QuaternionUnitI" ->
                <<<<0, 1, FALSE>>, <<1, 0, TRUE>>,
                  <<2, 3, FALSE>>, <<3, 2, TRUE>>>>
          [] cls = "QuaternionUnitJ" ->
                <<<<0, 2, FALSE>>, <<1, 3, TRUE>>,
                  <<2, 0, TRUE>>, <<3, 1, FALSE>>>>
          [] cls = "QuaternionUnitK" ->
                <<<<0, 3, FALSE>>, <<1, 2, FALSE>>,
                  <<2, 1, TRUE>>, <<3, 0, TRUE>>>>
          [] cls = "BiQuaternionUnit1" ->
                <<<<0, 0, FALSE>>, <<1, 1, FALSE>>, <<2, 2, FALSE>>,
                  <<3, 3, FALSE>>, <<4, 4, FALSE>>, <<5, 5, FALSE>>,
                  <<6, 6, FALSE>>, <<7, 7, FALSE>>>>
          [] cls = "BiQuaternionUniti" ->
                <<<<0, 1, FALSE>>, <<1, 0, TRUE>>, <<2, 5, FALSE>>,
                  <<3, 6, FALSE>>, <<4, 7, FALSE>>, <<5, 2, TRUE>>,
                  <<6, 3, TRUE>>, <<7, 4, TRUE>>>>
          [] cls = "BiQuaternionUnitI" ->
                <<<<0, 2, FALSE>>, <<1, 5, FALSE>>, <<2, 0, TRUE>>,
                  <<3, 4, FALSE>>, <<4, 3, FALSE>>, <<5, 1, FALSE>>,
                  <<6, 7, TRUE>>, <<7, 6, TRUE>>>>
          [] cls = "BiQuaternionUnitiI" ->
                <<<<0, 5, FALSE>>, <<1, 2, TRUE>>, <<2, 1, TRUE>>,
                  <<3, 7, FALSE>>, <<4, 6, TRUE>>, <<5, 0, TRUE>>,
                  <<6, 4, TRUE>>, <<7, 3, FALSE>>>>
          [] cls = "BiQuaternionUnitJ" ->
                <<<<0, 3, FALSE>>, <<1, 6, FALSE>>, <<2, 4, FALSE>>,
                  <<3, 0, TRUE>>, <<4, 2, TRUE>>, <<5, 7, FALSE>>,
                  <<6, 1, TRUE>>, <<7, 5, TRUE>>>>
          [] cls = "BiQuaternionUnitiJ" ->
                <<<<0, 6, FALSE>>, <<1, 3, TRUE>>, <<2, 7, FALSE>>,
                  <<3, 1, FALSE>>, <<4, 5, FALSE>>, <<5, 4, TRUE>>,
                  <<6, 0, TRUE>>, <<7, 2, TRUE>>>>
          [] cls = "BiQuaternionUnitK" ->
                <<<<0, 4, FALSE>>, <<1, 7, FALSE>>, <<2, 3, TRUE>>,
                  <<3, 2, FALSE>>, <<4, 0, TRUE>>, <<5, 6, FALSE>>,
                  <<6, 5, TRUE>>, <<7, 1, TRUE>>>>
          [] cls = "BiQuaternionUnitiK" ->
                <<<<0, 7, FALSE>>, <<1, 4, TRUE>>, <<2, 6, TRUE>>,
                  <<3, 5, FALSE>>, <<4, 1, FALSE>>, <<5, 3, TRUE>>,
                  <<6, 2, FALSE>>, <<7, 0, TRUE>>>>]

\* A variant of draw_internal_wiring that loses the first row.
draw_internal_wiring_tail(cls) == Tail(LEGACY_CONNS[cls])

\* draw_internal_wiring of class cls: the conns it passes on
draw_internal_wiring(cls) == LEGACY_CONNS[cls]

\* a vector sent through a table: each row copies input in to output out,
\* negated if the row's switch is set (the rule of get_output_values)
Route(conns, input_values) ==
    WiringLoop(conns, input_values, Zeros(max_output_idx(conns) + 1))

\* ------------------------------------------------------------------
\* The per-class tables and vectors sent through them (SpecLegacy).
\* ------------------------------------------------------------------
\* the vectors of length d with at most two entries that are not 0
LegacyVectors(d) ==
    {[k \in 1..d |-> IF k = p THEN a ELSE IF k = q THEN b ELSE 0] :
        p \in 1..d, q \in 1..d, a \in Values, b \in Values}

DrawInternalWiring(cls) ==
    /\ last.op = "init"
    /\ UNCHANGED coreVars
    /\ last' = Call("draw_internal_wiring", cls, None,
                    draw_internal_wiring(cls), coreVars' # coreVars)
    /\ UNCHANGED guiVars

RouteVector(cls, input_values) ==
    LET r == Route(draw_internal_wiring(cls), input_values) IN
    /\ UNCHANGED coreVars
    /\ last' = Call("route", [cls |-> cls, input_values |-> input_values],
                    r.raised, r.ret, coreVars' # coreVars)
    /\ UNCHANGED guiVars

LegacyNext ==
    \/ \E cls \in LegacyClasses : DrawInternalWiring(cls)
    \/ /\ last.op = "draw_internal_wiring"
       /\ \E v \in LegacyVectors(build_anchor_dimension(last.arg)) :
             RouteVector(last.arg, v)
    \/ /\ last.op = "route" /\ last.raised = None
       /\ RouteVector(last.arg.cls, last.ret)

SpecLegacy == Init /\ [][LegacyNext]_vars

\* ------------------------------------------------------------------
\* gui_items.py: ConnectionItem, Anchor, NumberBox.  An Anchor wraps one
\* core port and is named by it; a NumberBox wraps one unit and is named
\* by its node id.  The GUI operators work on a record
\*   st = [connections, gui_connections, scene_connections].
\* ------------------------------------------------------------------
ConnectionItem(id, src, dst) == [id |-> id, src |-> src, dst |-> dst]

SceneState == [connections |-> connections,
               gui_connections |-> gui_connections,
               scene_connections |-> scene_connections]

\* Anchor.kind
kind(anchor) == IF anchor.port_category = INPUT THEN "input" ELSE "output"

\* NumberBox.inputs / NumberBox.outputs (_create_gui_anchors)
inputs(node) == units[node].input_ports
outputs(node) == units[node].output_ports

\* ConnectionItem.remove: takes the item out of both anchors' lists
remove(st, conn) ==
    LET g1 == IF In(conn, st.gui_connections[conn.src])
              THEN [st.gui_connections EXCEPT ![conn.src] = Remove(@, conn)]
              ELSE st.gui_connections
        g2 == IF In(conn, g1[conn.dst])
              THEN [g1 EXCEPT ![conn.dst] = Remove(@, conn)]
              ELSE g1
    IN  [st EXCEPT !.gui_connections = g2]

\* the body of the loops of add_connection and delete_selected_nodes:
\*   conn.remove(); if conn in self.connections: self.connections.remove(conn)
RemoveFromScene(st, conn) ==
    LET s1 == remove(st, conn) IN
    IF In(conn, s1.scene_connections)
    THEN [s1 EXCEPT !.scene_connections = Remove(@, conn)]
    ELSE s1

RECURSIVE RemoveEach(_, _)
RemoveEach(st, conns) ==
    IF conns = <<>> THEN st
    ELSE RemoveEach(RemoveFromScene(st, Head(conns)), Tail(conns))

\* Anchor.connect_to(other, connection)
anchor_connect_to(st, self, other, connection) ==
    IF can_connect_to(self, other)
    THEN LET r == connect_to(st.connections, self, other) IN
         [ret |-> TRUE,
          st |-> [st EXCEPT
                    !.connections = r.connections,
                    !.gui_connections =
                       [@ EXCEPT ![self] = Append(@, connection),
                                 ![other] = Append(@, connection)]]]
    ELSE [ret |-> FALSE, st |-> st]

\* ------------------------------------------------------------------
\* gui_scene.py: NodeScene
\* ------------------------------------------------------------------
ItemIds(st) ==
    {c.id : c \in Range(st.scene_connections)} \cup
    UNION {{c.id : c \in Range(st.gui_connections[a])} :
              a \in DOMAIN st.gui_connections}

\* A variant of add_connection that leaves the input's old connection.
add_connection_keepOld(st, src_anchor, tgt_anchor) ==
    IF \E i \in 1..Len(st.gui_connections[src_anchor]) :
          st.gui_connections[src_anchor][i].dst = tgt_anchor
    THEN st
    ELSE LET conn == ConnectionItem(NewId(ItemIds(st)), src_anchor, tgt_anchor)
             s2 == [st EXCEPT !.scene_connections = Append(@, conn)]
         IN  anchor_connect_to(s2, src_anchor, tgt_anchor, conn).st

add_connection(st, src_anchor, tgt_anchor) ==
    IF \E i \in 1..Len(st.gui_connections[src_anchor]) :
          st.gui_connections[src_anchor][i].dst = tgt_anchor
    THEN st
    ELSE LET s1 == IF kind(tgt_anchor) = "input"
                      /\ st.gui_connections[tgt_anchor] # <<>>
                   THEN RemoveEach(st, st.gui_connections[tgt_anchor])
                   ELSE st
             conn == ConnectionItem(NewId(ItemIds(s1)), src_anchor, tgt_anchor)
             s2 == [s1 EXCEPT !.scene_connections = Append(@, conn)]
         IN  anchor_connect_to(s2, src_anchor, tgt_anchor, conn).st

\* the targets finalize_connection collects; `near` is the input anchor
\* of target_node within 2 * ANCHOR_RADIUS of the release point, if any
Targets(target_node, near) ==
    IF target_node = NoNode THEN <<>>
    ELSE IF drag_start_anchor # NoPort
    THEN LET Hit(in_anchor) == in_anchor = near
                               /\ can_connect_to(in_anchor, drag_start_anchor)
         IN  SelectSeq(inputs(target_node), Hit)
    ELSE IF drag_start_node # NoNode
    THEN LET outs == outputs(drag_start_node)
             ins == inputs(target_node)
             max_connections == IF Len(outs) < Len(ins) THEN Len(outs)
                                ELSE Len(ins)
             idx == SelectSeq([i \in 1..max_connections |-> i],
                              LAMBDA i : can_connect_to(outs[i], ins[i]))
         IN  [k \in 1..Len(idx) |-> ins[idx[k]]]
    ELSE <<>>

\* next((o for o in outputs if o.can_connect_to(tgt)), None)
FirstOutput(node, tgt) ==
    LET outs == outputs(node)
        ok == {i \in 1..Len(outs) : can_connect_to(outs[i], tgt)}
    IN  IF ok = {} THEN NoPort
        ELSE outs[CHOOSE i \in ok : \A j \in ok : i <= j]

\* the loop `for tgt in targets` of finalize_connection
RECURSIVE ConnectTargets(_, _)
ConnectTargets(st, targets) ==
    IF targets = <<>> THEN st
    ELSE LET tgt == Head(targets)
             src == IF drag_start_anchor # NoPort THEN drag_start_anchor
                    ELSE FirstOutput(drag_start_node, tgt)
             s1 == IF src # NoPort THEN add_connection(st, src, tgt) ELSE st
         IN  ConnectTargets(s1, Tail(targets))

\* the loops of delete_selected_nodes over one item's anchors
RECURSIVE RemoveAnchors(_, _)
RemoveAnchors(st, anchors) ==
    IF anchors = <<>> THEN st
    ELSE RemoveAnchors(RemoveEach(st, st.gui_connections[Head(anchors)]),
                       Tail(anchors))

\* delete_selected_nodes over the selected items, lowest id first
RECURSIVE DeleteItems(_, _, _)
DeleteItems(st, nodes, selected) ==
    IF selected = {} THEN [st |-> st, nodes |-> nodes]
    ELSE LET item == CHOOSE n \in selected : \A m \in selected : n <= m
             s1 == RemoveAnchors(st, inputs(item) \o outputs(item))
             n1 == IF In(item, nodes) THEN Remove(nodes, item) ELSE nodes
         IN  DeleteItems(s1, n1, selected \ {item})

Commit(st) ==
    /\ connections' = st.connections
    /\ gui_connections' = st.gui_connections
    /\ scene_connections' = st.scene_connections

\* what the scene can be asked to create: a one-port unit, a two-port
\* unit and a tag the catalog does not hold
SceneTags == {"R", "CI", "BQ1"}

add_node_from_unit_type(unit_type) ==
    LET node == NewId(NodeIds)
        r == create_math_unit(node, unit_type) IN
    /\ IF r.raised # None
       THEN UNCHANGED <<coreVars, scene_nodes, gui_connections>>
       ELSE /\ Register(node, r.unit)
            /\ gui_connections' =
                  gui_connections @@
                  [p \in Range(r.unit.input_ports)
                         \cup Range(r.unit.output_ports) |-> <<>>]
            /\ scene_nodes' = Append(scene_nodes, node)
    /\ UNCHANGED <<last, scene_connections, dragging_connection,
                   drag_start_anchor, drag_start_node>>
    /\ Load' <= MaxLoad

start_connection_from_anchor(anchor) ==
    /\ drag_start_anchor' = anchor
    /\ dragging_connection' = TRUE
    /\ UNCHANGED <<last, coreVars, scene_nodes, scene_connections,
                   gui_connections, drag_start_node>>

start_connection_from_node(node) ==
    /\ drag_start_node' = node
    /\ dragging_connection' = TRUE
    /\ UNCHANGED <<last, coreVars, scene_nodes, scene_connections,
                   gui_connections, drag_start_anchor>>

\* A variant of cleanup_drag_state that keeps the node a drag started on.
cleanup_drag_state_keepNode ==
    /\ dragging_connection' = FALSE
    /\ drag_start_anchor' = NoPort
    /\ drag_start_node' = drag_start_node

cleanup_drag_state ==
    /\ dragging_connection' = FALSE
    /\ drag_start_anchor' = NoPort
    /\ drag_start_node' = NoNode

finalize_connection(target_node, near) ==
    /\ IF ~dragging_connection
       THEN UNCHANGED <<connections, gui_connections, scene_connections,
                        dragging_connection, drag_start_anchor,
                        drag_start_node>>
       ELSE /\ Commit(ConnectTargets(SceneState, Targets(target_node, near)))
            /\ cleanup_drag_state
    /\ UNCHANGED <<last, units, enabled, scene_nodes>>
    /\ Load' <= MaxLoad

\* A variant of mousePressEvent whose right press also empties the
\* port's connection list.
mousePressEvent_unlink(out_anchor, right_button) ==
    IF right_button
    THEN /\ enabled' = [enabled EXCEPT ![out_anchor] = ~enabled[out_anchor]]
         /\ connections' = [connections EXCEPT ![out_anchor] = <<>>]
         /\ UNCHANGED <<last, units>>
         /\ UNCHANGED guiVars
         /\ Load' <= MaxLoad
    ELSE start_connection_from_anchor(out_anchor)

\* mousePressEvent on an output anchor of a node of the scene
mousePressEvent(out_anchor, right_button) ==
    IF right_button
    THEN /\ enabled' = [enabled EXCEPT ![out_anchor] = ~enabled[out_anchor]]
         /\ UNCHANGED <<last, units, connections>>
         /\ UNCHANGED guiVars
         /\ Load' <= MaxLoad
    ELSE start_connection_from_anchor(out_anchor)

mouseReleaseEvent(target_node, near) == finalize_connection(target_node, near)

mouseDoubleClickEvent(node) == start_connection_from_node(node)

delete_selected_nodes(selected) ==
    LET r == DeleteItems(SceneState, scene_nodes, selected) IN
    /\ Commit(r.st)
    /\ scene_nodes' = r.nodes
    /\ UNCHANGED <<last, units, enabled, dragging_connection, drag_start_anchor,
                   drag_start_node>>

\* the output anchors a press can land on
SceneOutputs == UNION {Range(outputs(n)) : n \in Range(scene_nodes)}

\* the input anchor of target_node under the release point, or none
NearChoices(target_node) ==
    IF target_node = NoNode THEN {NoPort}
    ELSE Range(inputs(target_node)) \cup {NoPort}

\* The events the view delivers to the scene.  A button's press or double
\* click is followed by its release (which runs finalize_connection) before
\* its next press, so a drag starts only when none is in progress; a right
\* press, a release and the Delete key can come at any time.
Next ==
    \/ \E t \in SceneTags : add_node_from_unit_type(t)
    \/ \E a \in SceneOutputs, right_button \in BOOLEAN :
          /\ right_button \/ ~dragging_connection
          /\ mousePressEvent(a, right_button)
    \/ \E n \in Range(scene_nodes) :
          /\ ~dragging_connection
          /\ mouseDoubleClickEvent(n)
    \/ \E n \in Range(scene_nodes) \cup {NoNode} :
          \E a \in NearChoices(n) : mouseReleaseEvent(n, a)
    \/ \E sel \in (SUBSET Range(scene_nodes)) \ {{}} :
          delete_selected_nodes(sel)

Spec == Init /\ [][Next]_vars

\* ==================================================================
\* Properties
\* ==================================================================
Connected(a, b) == In(b, connections[a])

\* C1: can_connect_to(other) is false if either port is disabled, if
\* other is the same port or on the same node, if both have the same
\* category, or if their types differ; in every other case it is true.
C1_CanConnectRule ==
    \A a \in AllPorts, b \in AllPorts :
        can_connect_to(a, b) =
            ~(\/ ~enabled[a] \/ ~enabled[b]
              \/ b = a \/ b.node = a.node
              \/ a.port_category = b.port_category
              \/ a.type # b.type)

\* a state with an accepted pair and, for each reason, a pair rejected
\* for that reason alone
C1_Witness ==
    /\ \E a \in AllPorts, b \in AllPorts : can_connect_to(a, b)
    /\ \E a \in AllPorts, b \in AllPorts :
          /\ ~enabled[a] /\ enabled[b] /\ a.node # b.node
          /\ a.port_category # b.port_category /\ a.type = b.type
    /\ \E a \in AllPorts, b \in AllPorts :
          /\ enabled[a] /\ enabled[b] /\ a.node = b.node /\ a # b
          /\ a.port_category # b.port_category /\ a.type = b.type
    /\ \E a \in AllPorts, b \in AllPorts :
          /\ enabled[a] /\ enabled[b] /\ a.node # b.node
          /\ a.port_category = b.port_category /\ a.type = b.type
    /\ \E a \in AllPorts, b \in AllPorts :
          /\ enabled[a] /\ enabled[b] /\ a.node # b.node
          /\ a.port_category # b.port_category /\ a.type # b.type

\* C2: can_connect_to is symmetric in every reachable state.
C2_CanConnectSymmetric ==
    \A a \in AllPorts, b \in AllPorts :
        can_connect_to(a, b) = can_connect_to(b, a)

\* a linked pair, one of whose ports has since been disabled
C2_Witness ==
    \E a \in AllPorts, b \in AllPorts :
        /\ Connected(a, b) /\ enabled[a] /\ ~enabled[b]
        /\ ~can_connect_to(a, b) /\ ~can_connect_to(b, a)

\* C3: when can_connect_to(other) is false, connect_to(other) returns
\* false and changes nothing: every connection list and every enabled
\* flag is as before the call.
C3_RejectedConnectIsNoOp ==
    /\ \A a \in AllPorts, b \in AllPorts :
          ~can_connect_to(a, b) =>
             connect_to(connections, a, b) =
                [ret |-> FALSE, connections |-> connections]
    /\ (last.op = "connect_to" /\ last.ret = FALSE) => ~last.changed

\* a rejected connect_to in a state that holds a link and a disabled port
C3_Witness ==
    /\ last.op = "connect_to" /\ last.ret = FALSE /\ ~last.changed
    /\ LinkEnds # {} /\ Disabled # {}

\* C4: when can_connect_to(other) is true, connect_to(other) returns
\* true and afterwards each port is exactly once in the other's list,
\* whether or not the pair was connected before; for a connected pair
\* the lists do not change.
C4_ConnectOnce ==
    \A a \in AllPorts, b \in AllPorts :
        can_connect_to(a, b) =>
            LET r == connect_to(connections, a, b) IN
            /\ r.ret = TRUE
            /\ Count(b, r.connections[a]) = 1
            /\ Count(a, r.connections[b]) = 1
            /\ (Connected(a, b) /\ Connected(b, a)) =>
                  r.connections = connections

\* a successful connect_to of a pair that was already connected
C4_Witness ==
    /\ last.op = "connect_to" /\ last.ret = TRUE /\ ~last.changed
    /\ \E a \in AllPorts, b \in AllPorts :
          Connected(a, b) /\ can_connect_to(a, b)

\* C5: disconnect_from(other) returns false and changes nothing when
\* other is not in this port's list; otherwise it returns true, neither
\* port is in the other's list afterwards, and every other link stays.
C5_Disconnect ==
    \A a \in AllPorts, b \in AllPorts :
        LET r == disconnect_from(connections, a, b) IN
        IF ~Connected(a, b)
        THEN r = [ret |-> FALSE, connections |-> connections]
        ELSE /\ r.ret = TRUE
             /\ ~In(b, r.connections[a])
             /\ ~In(a, r.connections[b])
             /\ \A p \in AllPorts, q \in AllPorts :
                   {p, q} # {a, b} =>
                      Count(q, r.connections[p]) = Count(q, connections[p])

\* a successful disconnect_from that left another link in place
C5_Witness ==
    /\ last.op = "disconnect_from" /\ last.ret = TRUE
    /\ LinkEnds # {}

\* C6: for two compatible ports with no other connection, connect_to
\* followed by disconnect_from, called from either side, returns both
\* ports to is_connected = false and both lists to empty.
C6_RoundTrip ==
    \A a \in AllPorts, b \in AllPorts :
        (/\ can_connect_to(a, b)
         /\ connections[a] = <<>> /\ connections[b] = <<>>) =>
            LET c == connect_to(connections, a, b)
                d1 == disconnect_from(c.connections, a, b)
                d2 == disconnect_from(c.connections, b, a)
            IN  /\ c.ret /\ d1.ret /\ d2.ret
                /\ is_connected(c.connections, a)
                /\ is_connected(c.connections, b)
                /\ \A d \in {d1, d2} :
                      /\ ~is_connected(d.connections, a)
                      /\ ~is_connected(d.connections, b)
                      /\ d.connections[a] = <<>>
                      /\ d.connections[b] = <<>>

\* a disconnect_from has just undone the only link of a compatible pair
C6_Witness ==
    /\ last.op = "disconnect_from" /\ last.ret = TRUE
    /\ LinkEnds = {}
    /\ \E a \in AllPorts, b \in AllPorts : can_connect_to(a, b)

\* C7: connections are bidirectional after any sequence of connect_to,
\* disconnect_from and enabled toggles: b is in a.connections if and
\* only if a is in b.connections.
C7_Bidirectional ==
    \A a \in AllPorts, b \in AllPorts : Connected(a, b) <=> Connected(b, a)

\* after a disconnect, with a link left and a port disabled
C7_Witness ==
    /\ last.op = "disconnect_from" /\ last.ret = TRUE
    /\ LinkEnds # {} /\ Disabled # {}

\* C8: no port's connection list holds the port itself or a port of the
\* same node.
C8_NoSelfOrSameNode ==
    \A a \in AllPorts : \A i \in 1..Len(connections[a]) :
        /\ connections[a][i] # a
        /\ connections[a][i].node # a.node

\* a connect_to has just given a port its second peer, while the port of
\* the same type across its own node is enabled and still not in its list
C8_Witness ==
    /\ last.op = "connect_to" /\ last.ret = TRUE /\ last.changed
    /\ \E a \in AllPorts, b \in AllPorts :
          /\ Len(connections[a]) >= 2
          /\ b.node = a.node /\ b.type = a.type
          /\ b.port_category # a.port_category
          /\ enabled[a] /\ enabled[b]
          /\ ~Connected(a, b)

\* C9: node deletion severs the node's port connections: after a step
\* that removes nodes from the scene, no port of a node still in the scene
\* has a port of a removed node in its core connection list.
C9_DeletionSevers ==
    [][\A n \in Range(scene_nodes) \ Range(scene_nodes') :
          \A p \in DOMAIN connections' :
             In(p.node, scene_nodes') =>
                \A i \in 1..Len(connections'[p]) :
                   connections'[p][i].node # n]_vars

\* C10: create_math_unit raises for a tag the catalog does not hold and
\* creates no node; for every registered tag it returns a unit configured
\* from the tag's catalog entry.
C10_Factory ==
    [][last'.op = "create_math_unit" =>
          IF last'.arg \notin DOMAIN MATH_UNIT_CONFIGS
          THEN /\ last'.raised = "ValueError"
               /\ UNCHANGED <<units, enabled, connections>>
          ELSE LET cfg == MATH_UNIT_CONFIGS[last'.arg]
                   n == last'.ret
               IN  /\ last'.raised = None
                   /\ n \notin DOMAIN units
                   /\ DOMAIN units' = DOMAIN units \cup {n}
                   /\ \A m \in DOMAIN units : units'[m] = units[m]
                   /\ units'[n].number_type = last'.arg
                   /\ units'[n].title = cfg.title
                   /\ units'[n].dimension = Len(cfg.ports)
                   /\ units'[n].wiring_connections = cfg.wiring_connections
                   /\ Len(units'[n].input_ports) = Len(cfg.ports)
                   /\ Len(units'[n].output_ports) = Len(cfg.ports)
                   /\ \A k \in 1..Len(cfg.ports) :
                         /\ units'[n].input_ports[k].type = cfg.ports[k]
                         /\ units'[n].output_ports[k].type = cfg.ports[k]]_vars

\* a refused tag after a unit of the largest dimension was created
C10_Witness ==
    /\ last.op = "create_math_unit" /\ last.raised = "ValueError"
    /\ \E n \in NodeIds : units[n].number_type = "QK"

\* a unit as the factory builds it from the catalog
Registered(n) ==
    /\ units[n].number_type \in DOMAIN MATH_UNIT_CONFIGS
    /\ units[n] = MathUnit(n, MATH_UNIT_CONFIGS[units[n].number_type])

\* the last call was get_output_values on unit n
Evaluated(n) == last.op = "get_output_values" /\ last.arg.node = n

\* the list get_output_values returns for unit u on v
Out(u, v) == get_output_values(u, v).ret

\* C11: for every registered unit type the input indices of the wiring
\* table, and its output indices, are exactly 0..dimension-1 with no
\* repeats, in the catalog and in the table every unit built from it
\* hands out.
C11_WiringBijection ==
    /\ \A t \in DOMAIN MATH_UNIT_CONFIGS :
          LET w == MATH_UNIT_CONFIGS[t].wiring_connections
              d == Len(MATH_UNIT_CONFIGS[t].ports)
          IN  /\ Len(w) = d
              /\ {w[k][1] : k \in 1..Len(w)} = 0..(d - 1)
              /\ {w[k][2] : k \in 1..Len(w)} = 0..(d - 1)
    /\ \A n \in NodeIds : Registered(n) =>
          LET w == get_wiring_connections(units[n])
              d == units[n].dimension
          IN  /\ Len(w) = d
              /\ {w[k][1] : k \in 1..Len(w)} = 0..(d - 1)
              /\ {w[k][2] : k \in 1..Len(w)} = 0..(d - 1)

\* a unit whose table moves every index has been built and evaluated
C11_Witness ==
    \E n \in NodeIds :
        /\ Registered(n) /\ units[n].number_type = "QJ" /\ Evaluated(n)
        /\ \A k \in 1..4 : get_wiring_connections(units[n])[k][1]
                              # get_wiring_connections(units[n])[k][2]

C13_ShortInput ==
    /\ \A n \in NodeIds :
          (/\ Evaluated(n) /\ Registered(n)
           /\ Len(last.arg.input_values) < units[n].dimension) =>
              LET w == units[n].wiring_connections IN
              /\ last.raised = None
              /\ \A k \in 1..Len(w) :
                    w[k][1] >= Len(last.arg.input_values) =>
                       last.ret[w[k][2] + 1] = 0
    /\ \A n \in NodeIds :
          (Registered(n) /\ units[n].number_type = "R") =>
              get_output_values(units[n], <<>>) =
                 [raised |-> None, ret |-> <<0>>]

\* a quaternion unit evaluated on two non-zero values out of four
C13_Witness ==
    \E n \in NodeIds :
        /\ Evaluated(n) /\ units[n].number_type = "QK"
        /\ last.arg.input_values = <<1, -1>>
        /\ last.raised = None /\ last.ret = <<0, 0, -1, 1>>

\* C14: the complex unit i maps [a, b] to [-b, a], and four applications
\* in a row return [a, b].
C14_ComplexI ==
    \A n \in NodeIds :
        (/\ Evaluated(n) /\ Registered(n) /\ units[n].number_type = "CI"
         /\ Len(last.arg.input_values) = 2) =>
            LET v == last.arg.input_values
                u == units[n]
            IN  /\ last.raised = None
                /\ last.ret = <<-v[2], v[1]>>
                /\ Out(u, Out(u, Out(u, last.ret))) = v

\* the unit i applied to a vector with two different non-zero components
C14_Witness ==
    \E n \in NodeIds :
        /\ Evaluated(n) /\ units[n].number_type = "CI"
        /\ last.arg.input_values = <<1, -1>> /\ last.ret = <<1, 1>>

\* the quaternion a unit of the family stands for
QuaternionUnit(t) ==
    CASE t = "Q1" -> <<1, 0, 0, 0>>
      [] t = "QI" -> <<0, 1, 0, 0>>
      [] t = "QJ" -> <<0, 0, 1, 0>>
      [] t = "QK" -> <<0, 0, 0, 1>>

\* the Hamilton product p * q of quaternions given as <<w, x, y, z>>
Hamilton(p, q) ==
    <<p[1] * q[1] - p[2] * q[2] - p[3] * q[3] - p[4] * q[4],
      p[1] * q[2] + p[2] * q[1] + p[3] * q[4] - p[4] * q[3],
      p[1] * q[3] - p[2] * q[4] + p[3] * q[1] + p[4] * q[2],
      p[1] * q[4] + p[2] * q[3] - p[3] * q[2] + p[4] * q[1]>>

\* C15: each quaternion unit u of Q1, QI, QJ, QK maps [w, x, y, z] to the
\* components of the Hamilton product u * (w + x i + y j + z k); the unit
\* i maps [w, x, y, z] to [-x, w, -z, y].
C15_Hamilton ==
    \A n \in NodeIds :
        (/\ Evaluated(n) /\ Registered(n)
         /\ units[n].number_type \in {"Q1", "QI", "QJ", "QK"}
         /\ Len(last.arg.input_values) = 4) =>
            LET v == last.arg.input_values IN
            /\ last.raised = None
            /\ last.ret = Hamilton(QuaternionUnit(units[n].number_type), v)
            /\ units[n].number_type = "QI" =>
                  last.ret = <<-v[2], v[1], -v[4], v[3]>>

\* the unit j applied to a vector whose product with j differs from its
\* product with i, with k, and from the product taken on the other side
C15_Witness ==
    \E n \in NodeIds :
        /\ Evaluated(n) /\ units[n].number_type = "QJ"
        /\ last.arg.input_values = <<1, 1, 0, -1>>
        /\ last.ret = <<0, -1, 1, -1>>
        /\ last.ret # Hamilton(last.arg.input_values, <<0, 0, 1, 0>>)

\* C16: an identity unit (R, C1, Q1) returns every input vector of its
\* dimension unchanged, hence so do two applications.
C16_IdentityUnits ==
    \A n \in NodeIds :
        (/\ Evaluated(n) /\ Registered(n)
         /\ units[n].number_type \in {"R", "C1", "Q1"}
         /\ Len(last.arg.input_values) = units[n].dimension) =>
            /\ last.raised = None
            /\ last.ret = last.arg.input_values
            /\ Out(units[n], last.ret) = last.arg.input_values

\* the quaternion identity applied to four non-zero values
C16_Witness ==
    \E n \in NodeIds :
        /\ Evaluated(n) /\ units[n].number_type = "Q1"
        /\ last.arg.input_values = <<1, -1, 1, -1>>
        /\ last.ret = <<1, -1, 1, -1>>

\* C17: for every registered unit and every input vector, shorter than,
\* as long as or longer than the dimension, the list get_output_values
\* returns has as many entries as the unit has ports per side.
C17_OutputLength ==
    \A n \in NodeIds :
        (Evaluated(n) /\ Registered(n)) =>
            /\ last.raised = None
            /\ Len(last.ret) = units[n].dimension
            /\ Len(last.ret) = Len(units[n].output_ports)

\* a unit evaluated on a vector longer than its dimension
C17_Witness ==
    \E n \in NodeIds :
        /\ Evaluated(n) /\ Registered(n)
        /\ Len(last.arg.input_values) > units[n].dimension
        /\ units[n].dimension = 4

\* the input port of unit n at position index
InputPortAt(n, index) ==
    {p \in AllPorts : p.node = n /\ p.port_category = INPUT
                      /\ p.index = index}

\* C18: is_input_port_active(index) raises nothing and returns false for
\* every index outside 0..dimension-1, negative ones included; for an
\* index in range it returns true exactly when the input port at that
\* index has a non-empty connection list.
C18_InputPortActive ==
    /\ \A n \in NodeIds : \A i \in Indices(n) :
          LET r == is_input_port_active(connections, units[n], i) IN
          /\ r.raised = None
          /\ r.ret = IF 0 <= i /\ i < units[n].dimension
                     THEN \E p \in InputPortAt(n, i) : connections[p] # <<>>
                     ELSE FALSE
    /\ last.op = "is_input_port_active" =>
          /\ last.raised = None
          /\ last.ret = (/\ 0 <= last.arg.index
                         /\ last.arg.index < units[last.arg.node].dimension
                         /\ \E p \in InputPortAt(last.arg.node,
                                                 last.arg.index) :
                               connections[p] # <<>>)

\* index -1 asked of a unit whose last input port is connected
C18_Witness ==
    /\ last.op = "is_input_port_active" /\ last.arg.index = -1
    /\ last.ret = FALSE
    /\ \E p \in InputPortAt(last.arg.node,
                            units[last.arg.node].dimension - 1) :
          connections[p] # <<>>

\* C19: a unit the factory creates has dimension input ports and dimension
\* output ports; the port at position p has index p, the type at position
\* p of the config, category INPUT resp. OUTPUT, and starts enabled and
\* unconnected; no connect, disconnect, toggle or evaluation changes the
\* number, index, type or category of a unit's ports.
C19_PortsFixed ==
    /\ [](/\ \A n \in NodeIds :
                LET u == units[n]
                    cfg == MATH_UNIT_CONFIGS[u.number_type]
                IN  /\ u.dimension = Len(cfg.ports)
                    /\ Len(u.input_ports) = u.dimension
                    /\ Len(u.output_ports) = u.dimension
                    /\ \A k \in 1..u.dimension :
                          /\ u.input_ports[k].index = k - 1
                          /\ u.input_ports[k].type = cfg.ports[k]
                          /\ u.input_ports[k].port_category = INPUT
                          /\ u.input_ports[k].node = n
                          /\ u.output_ports[k].index = k - 1
                          /\ u.output_ports[k].type = cfg.ports[k]
                          /\ u.output_ports[k].port_category = OUTPUT
                          /\ u.output_ports[k].node = n
          /\ AllPorts = UNION {Range(units[n].input_ports)
                                  \cup Range(units[n].output_ports) :
                               n \in NodeIds}
          /\ DOMAIN connections = AllPorts
          /\ (last.op = "create_math_unit" /\ last.raised = None) =>
                \A p \in PortsOf(last.ret) :
                   enabled[p] /\ connections[p] = <<>>)
    /\ [][\A n \in DOMAIN units :
             /\ n \in DOMAIN units'
             /\ units'[n].input_ports = units[n].input_ports
             /\ units'[n].output_ports = units[n].output_ports]_vars

\* a two-port unit that has been linked, has a disabled port and has just
\* been evaluated
C19_Witness ==
    /\ last.op = "get_output_values"
    /\ units[last.arg.node].number_type = "CI"
    /\ \E p \in PortsOf(last.arg.node) : connections[p] # <<>>
    /\ \E p \in PortsOf(last.arg.node) : ~enabled[p]

\* C20: toggling a port's enabled flag removes no connection: the core
\* connection lists, the anchors' lists and the scene's list are as before
\* the toggle, is_connected and is_input_port_active keep their values;
\* while a port is disabled connect_to with it is rejected from either
\* side, and no step links a port that is disabled.
C20_ToggleKeepsConnections ==
    /\ [](\A a \in Disabled : \A b \in AllPorts :
             /\ connect_to(connections, a, b) =
                   [ret |-> FALSE, connections |-> connections]
             /\ connect_to(connections, b, a) =
                   [ret |-> FALSE, connections |-> connections])
    /\ [][(\E p \in DOMAIN enabled : enabled'[p] # enabled[p]) =>
             /\ connections' = connections
             /\ gui_connections' = gui_connections
             /\ scene_connections' = scene_connections
             /\ \A p \in AllPorts :
                   is_connected(connections', p) = is_connected(connections, p)
             /\ \A n \in NodeIds : \A i \in Indices(n) :
                   is_input_port_active(connections', units'[n], i) =
                      is_input_port_active(connections, units[n], i)]_vars
    /\ [][\A p \in AllPorts : \A i \in 1..Len(connections'[p]) :
             ~In(connections'[p][i], connections[p]) =>
                enabled[p] /\ enabled[connections'[p][i]]]_vars

\* a link drawn in the scene whose output port has since been disabled
\* with the right button: the core link and its connection item are there
C20_Witness ==
    \E a \in AllPorts, b \in AllPorts :
        /\ Connected(a, b) /\ Connected(b, a)
        /\ ~enabled[a] /\ enabled[b]
        /\ is_connected(connections, b)
        /\ \E i \in 1..Len(scene_connections) :
              scene_connections[i].src = a /\ scene_connections[i].dst = b
        /\ gui_connections[a] # <<>>

\* C23: each of the eight biquaternion tables (1, i, I, iI, J, iJ, K, iK)
\* has input indices, and output indices, that are exactly 0..7 with no
\* repeats.
C23_BiQuaternionBijection ==
    /\ \A cls \in BiQuaternionClasses :
          LET w == draw_internal_wiring(cls) IN
          /\ build_anchor_dimension(cls) = 8
          /\ Len(w) = 8
          /\ {w[k][1] : k \in 1..Len(w)} = 0..7
          /\ {w[k][2] : k \in 1..Len(w)} = 0..7
    /\ (last.op = "draw_internal_wiring"
        /\ last.arg \in BiQuaternionClasses) =>
          /\ Len(last.ret) = 8
          /\ {last.ret[k][1] : k \in 1..Len(last.ret)} = 0..7
          /\ {last.ret[k][2] : k \in 1..Len(last.ret)} = 0..7

\* the table of iK has been handed out and a vector with two non-zero
\* components sent through it
C23_Witness ==
    /\ last.op = "route" /\ last.arg.cls = "BiQuaternionUnitiK"
    /\ last.arg.input_values = <<1, 0, 0, 0, 0, 0, -1, 0>>
    /\ last.ret = <<0, 0, -1, 0, 0, 0, 0, 1>>

\* the catalog entry a per-class unit corresponds to
CoreEntry(cls) ==
    CASE cls = "ComplexUnit1" -> "C1"
      [] cls = "ComplexUnitI" -> "CI"
      [] cls = "QuaternionUnit1" -> "Q1"
      [] cls = "QuaternionUnitI" -> "QI"
      [] cls = "QuaternionUnitJ" -> "QJ"
      [] cls = "QuaternionUnitK" -> "QK"

\* C28: for C1, CI, Q1, QI, QJ, QK the table hard-coded in the per-class
\* unit is, row for row, the table of the corresponding catalog entry.
C28_LegacyEqualsCore ==
    (last.op = "draw_internal_wiring"
     /\ last.arg \in ComplexClasses \cup QuaternionClasses) =>
        last.ret = MATH_UNIT_CONFIGS[CoreEntry(last.arg)].wiring_connections

\* C30: every biquaternion table but the identity's squares to -1: a
\* vector of 8 components sent through the table twice comes back with
\* every component negated.
C30_BiQuaternionSquares ==
    (/\ last.op = "route" /\ last.raised = None
     /\ last.arg.cls \in BiQuaternionClasses \ {"BiQuaternionUnit1"}
     /\ Len(last.arg.input_values) = 8) =>
        Route(draw_internal_wiring(last.arg.cls), last.ret) =
           [raised |-> None,
            ret |-> [k \in 1..8 |-> -last.arg.input_values[k]]]

\* C29: chained quaternion units compose as the algebra does: for every
\* v of length 4, the i unit fed the j unit's output returns the k unit's
\* output for v, the j unit fed the i unit's output returns its negation,
\* and each of the units i, j, k applied twice returns -v.
C29_QuaternionChain ==
    \A n \in NodeIds :
        (/\ Evaluated(n) /\ Registered(n)
         /\ units[n].number_type \in {"QI", "QJ", "QK"}
         /\ Len(last.arg.input_values) = 4) =>
            LET v == last.arg.input_values
                Neg(x) == [k \in 1..Len(x) |-> -x[k]]
                U(t) == create_math_unit(NewId(NodeIds), t).unit
            IN  /\ last.raised = None
                /\ Out(units[n], last.ret) = Neg(v)
                /\ units[n].number_type = "QJ" =>
                      Out(U("QI"), last.ret) = Out(U("QK"), v)
                /\ units[n].number_type = "QI" =>
                      Out(U("QJ"), last.ret) = Neg(Out(U("QK"), v))

\* the i unit has been applied to a vector whose image under k is not its
\* own negation, so the two orders of chaining differ
C29_Witness ==
    \E n \in NodeIds :
        /\ Evaluated(n) /\ units[n].number_type = "QI"
        /\ last.arg.input_values = <<1, -1, 1, 0>>
        /\ last.ret = <<1, 1, 0, 1>>
        /\ Out(units[n], last.ret) = <<-1, 1, -1, 0>>

\* C22: the core does not limit a port to one connection: connect_to on a
\* compatible pair that is not yet linked succeeds however many peers each
\* port already has and adds the new peer to both lists, so an output
\* port linked to two input ports, and an input port linked to two output
\* ports, are reached by connect_to calls alone.
C22_NoFanLimit ==
    \A a \in AllPorts, b \in AllPorts :
        (can_connect_to(a, b) /\ ~Connected(a, b) /\ ~Connected(b, a)) =>
            LET r == connect_to(connections, a, b) IN
            /\ r.ret = TRUE
            /\ r.connections[a] = Append(connections[a], b)
            /\ r.connections[b] = Append(connections[b], a)

\* connect_to has just linked an output port to its second input port,
\* and one more connect_to gives one of these input ports a second output
\* port
C22_Witness ==
    /\ last.op = "connect_to" /\ last.ret = TRUE /\ last.changed
    /\ \E o \in AllPorts :
          /\ o.port_category = OUTPUT
          /\ Cardinality({p \in Range(connections[o]) :
                             p.port_category = INPUT}) >= 2
          /\ \E i \in Range(connections[o]), q \in AllPorts :
                /\ q.port_category = OUTPUT /\ q # o
                /\ Len(connections[i]) = 1
                /\ connect_to(connections, q, i).ret
                /\ connect_to(connections, q, i).connections[i] = <<o, q>>

\* the connection items of the scene's list that end at anchor a
ItemsInto(conns, a) == {i \in 1..Len(conns) : conns[i].dst = a}

\* C21: the scene keeps single fan-in: every input anchor has at most one
\* GUI connection, in its own list and in the scene's list; add_connection
\* to an input that has one takes the old item out of the anchors' lists
\* and out of the scene's list and leaves the new item as the only one.
C21_SingleFanIn ==
    /\ \A a \in DOMAIN gui_connections :
          a.port_category = INPUT =>
             /\ Len(gui_connections[a]) <= 1
             /\ Cardinality(ItemsInto(scene_connections, a)) <= 1
    /\ \A tgt \in DOMAIN gui_connections, src \in DOMAIN gui_connections :
          (/\ tgt.port_category = INPUT /\ src.port_category = OUTPUT
           /\ can_connect_to(src, tgt)
           /\ gui_connections[tgt] # <<>>
           /\ gui_connections[tgt][1].src # src) =>
              LET old == gui_connections[tgt][1]
                  r == add_connection(SceneState, src, tgt)
              IN  /\ Len(r.gui_connections[tgt]) = 1
                  /\ r.gui_connections[tgt][1].src = src
                  /\ r.gui_connections[tgt][1].dst = tgt
                  /\ In(r.gui_connections[tgt][1], r.scene_connections)
                  /\ In(r.gui_connections[tgt][1], r.gui_connections[src])
                  /\ ~In(old, r.scene_connections)
                  /\ ~In(old, r.gui_connections[old.src])
                  /\ ~In(old, r.gui_connections[tgt])

\* an input anchor whose connection has been replaced: it holds one item,
\* from a second output, while the first output has none left
C21_Witness ==
    \E a \in DOMAIN gui_connections, o \in DOMAIN gui_connections :
        /\ a.port_category = INPUT /\ o.port_category = OUTPUT
        /\ Len(gui_connections[a]) = 1
        /\ gui_connections[a][1].src # o
        /\ gui_connections[o] = <<>>
        /\ Connected(a, o)
        /\ Len(scene_connections) = 1

\* C25: a drag started on a node body creates connections only between
\* nodes of the same dimension: every connection item a release adds
\* while drag_start_node is set joins two nodes with equally many ports.
C25_ConnectAllSameDimension ==
    [][(dragging_connection /\ drag_start_node # NoNode
        /\ drag_start_anchor = NoPort) =>
          \A i \in 1..Len(scene_connections') :
             ~In(scene_connections'[i], scene_connections) =>
                units[scene_connections'[i].src.node].dimension =
                   units[scene_connections'[i].dst.node].dimension]_vars

\* C26: the core and the scene agree on what is connected: two core
\* ports are in each other's lists exactly when a connection item of the
\* scene joins their anchors.
C26_GuiCoreConsistent ==
    \A a \in AllPorts, b \in AllPorts :
        (Connected(a, b) /\ Connected(b, a)) <=>
            \E i \in 1..Len(scene_connections) :
                \/ /\ scene_connections[i].src = a
                   /\ scene_connections[i].dst = b
                \/ /\ scene_connections[i].src = b
                   /\ scene_connections[i].dst = a

\* no drag is in progress and nothing of one is left
Idle ==
    /\ dragging_connection = FALSE
    /\ drag_start_anchor = NoPort
    /\ drag_start_node = NoNode

C24_QueriesPure ==
    /\ last.op \in QueryOps => ~last.changed
    /\ \A n \in NodeIds :
          get_wiring_connections(units[n]) =
             MATH_UNIT_CONFIGS[units[n].number_type].wiring_connections
    /\ \A m \in NodeIds, n \in NodeIds :
          units[m].number_type = units[n].number_type =>
             get_wiring_connections(units[m]) =
                get_wiring_connections(units[n])
    /\ last.op = "can_connect_to" =>
          can_connect_to(last.arg[1], last.arg[2]) = last.ret
    /\ last.op = "is_connected" =>
          is_connected(connections, last.arg) = last.ret
    /\ last.op = "get_wiring_connections" =>
          get_wiring_connections(units[last.arg]) = last.ret
    /\ last.op = "is_input_port_active" =>
          is_input_port_active(connections, units[last.arg.node],
                               last.arg.index).ret = last.ret
    /\ last.op = "get_output_values" =>
          /\ get_output_values(units[last.arg.node],
                               last.arg.input_values).ret = last.ret
          /\ last.arg.input_values = Zeros(units[last.arg.node].dimension)

\* get_wiring_connections has just been asked of one of two linked units
\* of type CI
C24_Witness ==
    /\ last.op = "get_wiring_connections"
    /\ last.ret = <<<<0, 1, FALSE>>, <<1, 0, TRUE>>>>
    /\ \E m \in NodeIds :
          /\ m # last.arg
          /\ units[m].number_type = units[last.arg].number_type
          /\ \E p \in PortsOf(m) : connections[p] # <<>>

=============================================================================
